---- MODULE Spec2Model ----
(***************************************************************************)
(* ConfigMaster greeting pipeline (src/src/main.py): greet, async_greet,   *)
(* list_templates and the command-line entry point main, as one state      *)
(* machine.  A Python str is a sequence of one-character strings; an       *)
(* Optional value is <<>> (None) or <<v>>.                                  *)
(***************************************************************************)
EXTENDS Integers, Sequences, FiniteSets, TLC

\* ------------------------------------------------------------------ bounds
\* Short names are all strings over NameAlphabet of at most this length.
MaxShortName == 2
\* The clock of an async_greet call is followed for this many ticks of 0.1 s.
MaxElapsed == 52
\* Short --tags values are all strings over TagAlphabet of at most this length.
MaxTagsLen == 3

\* ------------------------------------------------------- program constants
\* logging.DEBUG and logging.INFO
DEBUG == 10
INFO == 20
\* len(name) > 1000 is rejected
MaxNameLen == 1000
\* len(tags.split(",")) > 10 is rejected
MaxTags == 10
\* asyncio.sleep(0.1) and asyncio.timeout(5.0), in ticks of 0.1 s
SleepTicks == 1
TimeoutTicks == 50

\* ----------------------------------------------------------------- strings
None == <<>>
Some(x) == <<x>>

Rep(c, n) == [i \in 1..n |-> c]

Min(S) == CHOOSE x \in S : \A y \in S : x <= y
Max(S) == CHOOSE x \in S : \A y \in S : x >= y

IsSpace(c) == c \in {" ", "\t", "\n"}

\* str.strip(): the string without its leading and trailing whitespace
strip(s) ==
  LET keep == {i \in 1..Len(s) : ~IsSpace(s[i])}
  IN IF keep = {} THEN <<>> ELSE SubSeq(s, Min(keep), Max(keep))

\* needle in hay
Contains(hay, needle) ==
  \E i \in 1..(Len(hay) - Len(needle) + 1) :
    SubSeq(hay, i, i + Len(needle) - 1) = needle

\* --------------------------------------------------------------- outcomes
\* A call either returns a value or raises an exception of a type; a
\* ValidationError carries the key of its error mapping.
NoRes == [kind |-> "none", type |-> "", key |-> "", value |-> <<>>]
Return(v) == [kind |-> "return", type |-> "", key |-> "", value |-> v]
Raise(t, k) == [kind |-> "raise", type |-> t, key |-> k, value |-> <<>>]

\* ------------------------------------------------- src.config.i18n (absent)
LanguageValues == {"en", "ja", "es"}
JA == "ja"
EN == "en"

TRANSLATIONS ==
  [l \in LanguageValues |->
     CASE l = "en" -> [greeting_prefix |-> <<"H","e","l","l","o">>,
                       greeting_suffix |-> <<"!">>]
       [] l = "ja" -> [greeting_prefix |-> <<"O","h","a","y","o">>,
                       greeting_suffix |-> <<"!", "!">>]
       [] l = "es" -> [greeting_prefix |-> <<"H","o","l","a">>,
                       greeting_suffix |-> <<"!">>]]

\* get_translation(language): the entry, or ValueError for a value outside
\* the supported set
get_translation(language) ==
  IF language \in LanguageValues
    THEN Return(TRANSLATIONS[language])
    ELSE Raise("ValueError", "")

\* -------------------------------------------- src.config.templates (absent)
NAME == <<"n","a","m","e">>
MESSAGE == <<"m","e","s","s","a","g","e">>
PREFIX == <<"p","r","e","f","i","x">>
SUFFIX == <<"s","u","f","f","i","x">>
Field(f) == <<"{">> \o f \o <<"}">>

TagBasic == <<"b","a","s","i","c">>
TagFormal == <<"f","o","r","m","a","l">>
TagCasual == <<"c","a","s","u","a","l">>
TagFun == <<"f","u","n">>

TEMPLATES ==
  [s \in {"default", "formal", "casual"} |->
     CASE s = "default" ->
            [pattern |-> Field(PREFIX) \o <<" ">> \o Field(NAME) \o Field(SUFFIX),
             category |-> "default", tags |-> {TagBasic}]
       [] s = "formal" ->
            [pattern |-> Field(PREFIX) \o <<",", " ">> \o Field(NAME) \o <<".", " ">>
                           \o Field(MESSAGE),
             category |-> "formal", tags |-> {TagFormal, TagBasic}]
       [] s = "casual" ->
            [pattern |-> <<"{", "{">> \o Field(PREFIX) \o <<"}", "}", " ">>
                           \o Field(NAME) \o Field(SUFFIX) \o Field(MESSAGE),
             category |-> "casual", tags |-> {TagCasual, TagFun}]]

Styles == DOMAIN TEMPLATES

\* TemplateManager.get_template(style): the pattern, or KeyError
get_template(style) ==
  IF style \in Styles
    THEN Return(TEMPLATES[style].pattern)
    ELSE Raise("KeyError", "")

Categories == {"default", "formal", "casual"}

\* TemplateCategory(value): the member, or ValueError
TemplateCategory(value) ==
  IF value \in Categories THEN Return(value) ELSE Raise("ValueError", "")

\* TemplateManager.list_templates(), get_by_category(cat), search_by_tags(tags):
\* the styles of the mapping returned
all_templates == Styles
get_by_category(cat) == {st \in Styles : TEMPLATES[st].category = cat}
search_by_tags(tag_set) ==
  {st \in Styles : TEMPLATES[st].tags \cap tag_set # {}}

\* ------------------------------------------------------------- str.format
Lookup(kw, field) ==
  LET hits == {i \in 1..Len(kw) : kw[i][1] = field}
  IN IF hits = {} THEN Raise("KeyError", "") ELSE Return(kw[Min(hits)][2])

Prepend(s, r) == IF r.kind = "return" THEN Return(s \o r.value) ELSE r

RECURSIVE FormatFrom(_, _, _)
FormatFrom(p, i, kw) ==
  IF i > Len(p) THEN Return(<<>>)
  ELSE IF p[i] = "{" THEN
    IF i < Len(p) /\ p[i + 1] = "{"
      THEN Prepend(<<"{">>, FormatFrom(p, i + 2, kw))
      ELSE LET closes == {j \in (i + 1)..Len(p) : p[j] = "}"}
           IN IF closes = {} THEN Raise("ValueError", "")
              ELSE LET j == Min(closes)
                       v == Lookup(kw, SubSeq(p, i + 1, j - 1))
                   IN IF v.kind = "raise" THEN v
                      ELSE Prepend(v.value, FormatFrom(p, j + 1, kw))
  ELSE IF p[i] = "}" THEN
    IF i < Len(p) /\ p[i + 1] = "}"
      THEN Prepend(<<"}">>, FormatFrom(p, i + 2, kw))
      ELSE Raise("ValueError", "")
  ELSE Prepend(<<p[i]>>, FormatFrom(p, i + 1, kw))

\* template.format(**kw)
format(p, kw) == FormatFrom(p, 1, kw)

\* ---------------------------------------------- src.config.settings (absent)
AppConfig ==
  [debug |-> FALSE, language |-> EN, template_style |-> "default",
   custom_message |-> None, async_mode |-> FALSE, log_level |-> "INFO"]

\* the files of the run: what loading each gives, and whether it can be written
Ciao == <<"c","i","a","o">>
FILES ==
  [f \in {"missing.json", "bad.json", "debug.json", "odd.json"} |->
     CASE f = "missing.json" -> [load |-> Raise("IOError", ""), writable |-> TRUE]
       [] f = "bad.json" -> [load |-> Raise("JSONDecodeError", ""), writable |-> TRUE]
       [] f = "debug.json" ->
            [load |-> Return([debug |-> TRUE, language |-> "ja",
                              template_style |-> "formal",
                              custom_message |-> Some(Ciao),
                              async_mode |-> TRUE, log_level |-> "WARNING"]),
             writable |-> TRUE]
       [] f = "odd.json" ->
            [load |-> Return([debug |-> FALSE, language |-> "es",
                              template_style |-> "bogus",
                              custom_message |-> None,
                              async_mode |-> FALSE, log_level |-> "DEBUG"]),
             writable |-> FALSE]]

\* AppConfig.from_file(path): the config, or an I/O or parse error
from_file(path) == FILES[path].load

\* config.to_file(path): IOError on an unwritable path
to_file(path) ==
  IF FILES[path].writable THEN Return(<<>>) ELSE Raise("IOError", "")

\* config.validate(): template_style must be registered
validate(c) ==
  IF c.template_style \in Styles
    THEN Return(<<>>)
    ELSE Raise("ValidationError", "template_style")

\* ------------------------------------------------------------------ inputs
NameAlphabet == {"a", " ", "{"}

RECURSIVE StringsUpTo(_, _)
StringsUpTo(A, n) ==
  IF n = 0 THEN {<<>>}
  ELSE LET shorter == StringsUpTo(A, n - 1)
       IN shorter \cup {Append(s, c) : s \in shorter, c \in A}

Sam == <<"S","a","m">>
Taro == <<"T","a","r","o">>

Names ==
  StringsUpTo(NameAlphabet, MaxShortName)
    \cup {Sam, Taro, <<" "," "," ">>, <<" ","S","a","m"," ">>,
          Rep("a", MaxNameLen), Rep("a", MaxNameLen + 1),
          Rep(" ", MaxNameLen + 1)}

Msg == <<"b","y","e">>

Configs ==
  [debug : BOOLEAN, language : {"en", "ja", "es", "xx"},
   template_style : {"default", "formal", "casual", "bogus"},
   custom_message : {None, Some(Msg), Some(<<>>)},
   async_mode : {FALSE}, log_level : {"INFO"}]

\* the inputs of a session that calls greet and async_greet on the same inputs
SessionNames ==
  {<<>>, <<" "," "," ">>, Sam, <<" ","S","a","m"," ">>}

SessionConfigs ==
  {None} \cup
  {Some(c) : c \in [debug : BOOLEAN, language : {"en", "ja", "xx"},
                    template_style : {"default", "formal", "bogus"},
                    custom_message : {None, Some(Msg)},
                    async_mode : {FALSE}, log_level : {"INFO"}]}

\* --------------------------------------------------------------- variables
VARIABLES
  rootLevel,     \* logging.getLogger().level, process-wide
  gpc,           \* where the running greet call stands
  gname,         \* greet: name
  gconfig,       \* greet: config (Optional)
  translations,  \* greet: local
  template,      \* greet: local
  gres,          \* greet: how the call ended
  events,        \* the lookups and log-level changes of the call, in order
  preLevel,      \* rootLevel when the call was entered
  apc,           \* where the running async_greet call stands
  aname,         \* async_greet: name
  aconfig,       \* async_greet: config (Optional)
  elapsed,       \* ticks since the async_greet call started
  ares,          \* how the last async_greet call ended
  inName,        \* the session's name
  inConfig,      \* the session's config
  lastGreet,     \* how the last direct greet call ended
  lcategory,     \* list_templates: category (Optional)
  ltags,         \* list_templates: tags (Optional)
  lres,          \* how the last list_templates call ended
  searched,      \* the tag set it passed to search_by_tags (Optional)
  displayed,     \* the styles it printed
  mpc,           \* where main stands
  args,          \* main: the parsed command line
  mconfig,       \* main: config (Optional: unbound until loaded)
  loaded,        \* the config as loaded, before the overrides (Optional)
  saved,         \* what --save-config wrote (Optional)
  validated,     \* the config config.validate() checked (Optional)
  merror,        \* the first error of the run, "" if none
  printed,       \* the greeting printed (Optional)
  exitCode       \* the process's exit status, -1 while it runs

greetVars == <<gpc, gname, gconfig, translations, template, gres, events,
               preLevel>>
asyncVars == <<apc, aname, aconfig, elapsed, ares>>
listVars == <<lcategory, ltags, lres, searched, displayed>>
mainVars == <<mpc, args, mconfig, loaded, saved, validated, merror, printed,
              exitCode>>
sessionVars == <<inName, inConfig>>
\* what neither greet nor async_greet touches
envVars == <<sessionVars, listVars, mainVars>>

vars == <<rootLevel, greetVars, asyncVars, envVars, lastGreet>>

NoTranslations == [greeting_prefix |-> <<>>, greeting_suffix |-> <<>>]

\* cfg = config or AppConfig()
cfg == IF gconfig = None THEN AppConfig ELSE gconfig[1]

InitGreet ==
  /\ gpc = "idle"
  /\ gname = <<>>
  /\ gconfig = None
  /\ translations = NoTranslations
  /\ template = <<>>
  /\ gres = NoRes
  /\ events = <<>>
  /\ preLevel = INFO

InitAsync ==
  /\ apc = "idle"
  /\ aname = <<>>
  /\ aconfig = None
  /\ elapsed = 0
  /\ ares = NoRes

InitList ==
  /\ lcategory = None
  /\ ltags = None
  /\ lres = NoRes
  /\ searched = None
  /\ displayed = {}

NoArgs ==
  [command |-> "", name |-> <<>>, debug |-> FALSE, message |-> None,
   config |-> None, style |-> "default", language |-> EN,
   async_mode |-> FALSE, save_config |-> None, category |-> None,
   tags |-> None, action |-> "view", file |-> None]

InitMain ==
  /\ mconfig = None
  /\ loaded = None
  /\ saved = None
  /\ validated = None
  /\ merror = ""
  /\ printed = None
  /\ exitCode = -1

\* logging.basicConfig(level=logging.INFO) at import
Init ==
  /\ rootLevel = INFO
  /\ InitGreet
  /\ InitAsync
  /\ inName = <<>>
  /\ inConfig = None
  /\ lastGreet = NoRes
  /\ InitList
  /\ InitMain
  /\ mpc = "idle"
  /\ args = NoArgs

\* ------------------------------------------------------------------- greet
\* the call: greet(name, config)
GreetEnter(name, config) ==
  /\ gpc' = "validate"
  /\ gname' = name
  /\ gconfig' = config
  /\ translations' = NoTranslations
  /\ template' = <<>>
  /\ gres' = NoRes
  /\ events' = <<>>
  /\ preLevel' = rootLevel

\* the call is over: its frame is gone
GreetExit ==
  /\ gpc' = "idle"
  /\ gname' = <<>>
  /\ gconfig' = None
  /\ translations' = NoTranslations
  /\ template' = <<>>
  /\ gres' = NoRes
  /\ events' = <<>>
  /\ preLevel' = rootLevel

\* the name checks
NameErrorNoStrip(name) ==
  IF name = <<>> THEN Raise("ValidationError", "name")
  ELSE IF Len(name) > MaxNameLen THEN Raise("ValidationError", "name")
  ELSE NoRes

NameError(name) ==
  IF name = <<>> \/ strip(name) = <<>> THEN Raise("ValidationError", "name")
  ELSE IF Len(name) > MaxNameLen THEN Raise("ValidationError", "name")
  ELSE NoRes

GreetValidate ==
  /\ gpc = "validate"
  /\ IF NameError(gname).kind = "raise"
       THEN gpc' = "returned" /\ gres' = NameError(gname)
       ELSE gpc' = "debug" /\ UNCHANGED gres
  /\ UNCHANGED <<rootLevel, gname, gconfig, translations, template, events,
                 preLevel>>

\* if cfg.debug: logging.getLogger().setLevel(logging.DEBUG)
DebugLevelNever(level, debug) == level

DebugLevel(level, debug) == IF debug THEN DEBUG ELSE level

GreetDebug ==
  /\ gpc = "debug"
  /\ rootLevel' = DebugLevel(rootLevel, cfg.debug)
  /\ events' = IF cfg.debug THEN Append(events, "setLevel") ELSE events
  /\ gpc' = "translate"
  /\ UNCHANGED <<gname, gconfig, translations, template, gres, preLevel>>

\* a lookup that falls back to English where the code re-raises
GreetTranslateSwallow ==
  /\ gpc = "translate"
  /\ events' = Append(events, "get_translation")
  /\ gpc' = "template"
  /\ translations' = IF cfg.language \in LanguageValues
                       THEN TRANSLATIONS[cfg.language] ELSE TRANSLATIONS[EN]
  /\ UNCHANGED <<rootLevel, gname, gconfig, template, gres, preLevel>>

\* translations = get_translation(cfg.language); ValueError is re-raised
GreetTranslate ==
  /\ gpc = "translate"
  /\ events' = Append(events, "get_translation")
  /\ LET r == get_translation(cfg.language)
     IN IF r.kind = "raise"
          THEN gpc' = "returned" /\ gres' = r /\ UNCHANGED translations
          ELSE gpc' = "template" /\ translations' = r.value /\ UNCHANGED gres
  /\ UNCHANGED <<rootLevel, gname, gconfig, template, preLevel>>

\* the hardcoded patterns of the "default" style
CJK_SEP == <<"U+00E3", "U+20AC">>
DefaultJA ==
  Field(PREFIX) \o CJK_SEP \o Field(NAME) \o <<"!", " ">> \o Field(MESSAGE)
DefaultLatin ==
  Field(PREFIX) \o <<",", " ">> \o Field(NAME) \o <<"!", " ">> \o Field(MESSAGE)

\* the pattern greet formats, given the registry's
SelectStored(stored, style, language) == stored

SelectTemplate(stored, style, language) ==
  IF style = "default"
    THEN IF language = JA THEN DefaultJA ELSE DefaultLatin
    ELSE stored

\* template = TemplateManager.get_template(cfg.template_style), then the
\* override; KeyError is re-raised
GreetTemplate ==
  /\ gpc = "template"
  /\ events' = Append(events, "get_template")
  /\ LET r == get_template(cfg.template_style)
     IN IF r.kind = "raise"
          THEN gpc' = "returned" /\ gres' = r /\ UNCHANGED template
          ELSE /\ gpc' = "format"
               /\ template' = SelectTemplate(r.value, cfg.template_style,
                                             cfg.language)
               /\ UNCHANGED gres
  /\ UNCHANGED <<rootLevel, gname, gconfig, translations, preLevel>>

\* cfg.custom_message or ""
MessageOf(custom_message) ==
  IF custom_message = None THEN <<>> ELSE custom_message[1]

FormatArgsStripped(name, c, tr) ==
  << <<NAME, strip(name)>>, <<MESSAGE, MessageOf(c.custom_message)>>,
     <<PREFIX, tr.greeting_prefix>>, <<SUFFIX, tr.greeting_suffix>> >>

FormatArgs(name, c, tr) ==
  << <<NAME, name>>, <<MESSAGE, MessageOf(c.custom_message)>>,
     <<PREFIX, tr.greeting_prefix>>, <<SUFFIX, tr.greeting_suffix>> >>

\* message = template.format(...); KeyError and ValueError are re-raised
GreetFormat ==
  /\ gpc = "format"
  /\ events' = Append(events, "format")
  /\ gres' = format(template, FormatArgs(gname, cfg, translations))
  /\ gpc' = "returned"
  /\ UNCHANGED <<rootLevel, gname, gconfig, translations, template, preLevel>>

GreetStep ==
  /\ \/ GreetValidate
     \/ GreetDebug
     \/ GreetTranslate
     \/ GreetTemplate
     \/ GreetFormat
  /\ UNCHANGED <<asyncVars, envVars, lastGreet>>

\* a direct call of greet, outside any async_greet
GreetCall ==
  /\ gpc = "idle" /\ apc = "idle" /\ mpc = "idle"
  /\ \E name \in Names, config \in {None} \cup {Some(c) : c \in Configs} :
       GreetEnter(name, config)
  /\ UNCHANGED <<rootLevel, asyncVars, envVars, lastGreet>>

\* the direct caller takes the outcome; the log level stays as greet left it
GreetLeave ==
  /\ gpc = "returned" /\ apc = "idle" /\ mpc = "idle"
  /\ GreetExit
  /\ UNCHANGED <<rootLevel, asyncVars, envVars, lastGreet>>

\* ------------------------------------------------------------- async_greet
\* the call: the deadline is armed and the coroutine awaits asyncio.sleep(0.1)
AsyncEnter(name, config) ==
  /\ apc' = "sleeping"
  /\ aname' = name
  /\ aconfig' = config
  /\ elapsed' = 0
  /\ ares' = NoRes

\* time passes while the call is suspended or computing
Tick ==
  /\ apc \in {"sleeping", "running"}
  /\ elapsed < MaxElapsed
  /\ elapsed' = elapsed + 1
  /\ UNCHANGED <<rootLevel, greetVars, apc, aname, aconfig, ares,
                 envVars, lastGreet>>

\* a resumption that no deadline guards
AsyncWakeNoDeadline ==
  /\ apc = "sleeping"
  /\ elapsed >= SleepTicks
  /\ apc' = "running"
  /\ GreetEnter(aname, aconfig)
  /\ UNCHANGED <<rootLevel, aname, aconfig, elapsed, ares, envVars,
                 lastGreet>>

\* the event loop resumes the coroutine after the sleep, before the deadline:
\* return greet(name, config)
AsyncWake ==
  /\ apc = "sleeping"
  /\ elapsed >= SleepTicks
  /\ elapsed < TimeoutTicks
  /\ apc' = "running"
  /\ GreetEnter(aname, aconfig)
  /\ UNCHANGED <<rootLevel, aname, aconfig, elapsed, ares, envVars,
                 lastGreet>>

\* the deadline has passed when the loop turns to the suspended coroutine: it is
\* cancelled at its await and asyncio.timeout raises TimeoutError
AsyncTimeout ==
  /\ apc = "sleeping"
  /\ elapsed >= TimeoutTicks
  /\ apc' = "done"
  /\ ares' = Raise("TimeoutError", "")
  /\ UNCHANGED <<rootLevel, greetVars, aname, aconfig, elapsed, envVars,
                 lastGreet>>

\* handlers that turn every error of greet into one RuntimeError
AsyncHandlersWrap(r) ==
  IF r.kind = "raise" THEN Raise("RuntimeError", "") ELSE r

\* except asyncio.TimeoutError: raise / except Exception: raise
AsyncHandlers(r) ==
  CASE r.kind = "raise" /\ r.type = "TimeoutError" -> r
    [] r.kind = "raise" /\ r.type # "TimeoutError" -> r
    [] OTHER -> r

\* greet has returned or raised inside the timeout block
AsyncReturn ==
  /\ apc = "running"
  /\ gpc = "returned"
  /\ ares' = AsyncHandlers(gres)
  /\ apc' = "done"
  /\ GreetExit
  /\ UNCHANGED <<rootLevel, aname, aconfig, elapsed, envVars,
                 lastGreet>>

\* the caller takes the outcome
AsyncLeave ==
  /\ apc = "done" /\ mpc = "idle"
  /\ apc' = "idle"
  /\ aname' = <<>>
  /\ aconfig' = None
  /\ elapsed' = 0
  /\ UNCHANGED <<rootLevel, greetVars, ares, envVars, lastGreet>>

\* ----------------------------------------------------------------- session
\* one caller, one pair of inputs: greet and async_greet in any order
SessionInit ==
  /\ rootLevel = INFO
  /\ InitGreet
  /\ InitAsync
  /\ inName \in SessionNames
  /\ inConfig \in SessionConfigs
  /\ lastGreet = NoRes
  /\ InitList
  /\ InitMain
  /\ mpc = "idle"
  /\ args = NoArgs

SessionGreet ==
  /\ gpc = "idle" /\ apc = "idle" /\ mpc = "idle"
  /\ GreetEnter(inName, inConfig)
  /\ lastGreet' = NoRes
  /\ UNCHANGED <<rootLevel, asyncVars, envVars>>

\* the session keeps what greet gave it
SessionGreetLeave ==
  /\ gpc = "returned" /\ apc = "idle" /\ mpc = "idle"
  /\ lastGreet' = gres
  /\ GreetExit
  /\ UNCHANGED <<rootLevel, asyncVars, envVars>>

SessionAsync ==
  /\ gpc = "idle" /\ apc = "idle" /\ mpc = "idle"
  /\ AsyncEnter(inName, inConfig)
  /\ UNCHANGED <<rootLevel, greetVars, envVars, lastGreet>>

\* ---------------------------------------------------------- list_templates
\* tags.split(",")
RECURSIVE Split(_)
Split(str) ==
  LET commas == {i \in 1..Len(str) : str[i] = ","}
  IN IF commas = {} THEN <<str>>
     ELSE <<SubSeq(str, 1, Min(commas) - 1)>>
            \o Split(SubSeq(str, Min(commas) + 1, Len(str)))

\* if category: (a category is kept as its value) / elif tags:
TruthyCategory(opt) == opt # None /\ opt[1] # ""
Truthy(opt) == opt # None /\ opt[1] # <<>>

\* a check that counts the tags but lets empty ones through
TagsErrorCountOnly(tags) ==
  IF Len(Split(tags)) > MaxTags THEN Raise("ValidationError", "tags")
  ELSE NoRes

\* the validation of the tags format
TagsError(tags) ==
  IF ~(\A i \in 1..Len(Split(tags)) : strip(Split(tags)[i]) # <<>>)
    THEN Raise("ValidationError", "tags")
  ELSE IF Len(Split(tags)) > MaxTags THEN Raise("ValidationError", "tags")
  ELSE NoRes

\* tag_set = {t.strip() for t in tags.split(",")}
TagSet(tags) == {strip(Split(tags)[i]) : i \in 1..Len(Split(tags))}

\* list_templates(category, tags): how it ends, what it searched and printed
list_templates(category, tags) ==
  IF TruthyCategory(category) THEN
    IF TemplateCategory(category[1]).kind = "raise"
      THEN [res |-> TemplateCategory(category[1]), searched |-> None,
            displayed |-> {}]
      ELSE [res |-> Return(<<>>), searched |-> None,
            displayed |-> get_by_category(category[1])]
  ELSE IF Truthy(tags) THEN
    IF TagsError(tags[1]).kind = "raise"
      THEN [res |-> TagsError(tags[1]), searched |-> None, displayed |-> {}]
      ELSE [res |-> Return(<<>>), searched |-> Some(TagSet(tags[1])),
            displayed |-> search_by_tags(TagSet(tags[1]))]
  ELSE [res |-> Return(<<>>), searched |-> None, displayed |-> all_templates]

ListEnter(category, tags) ==
  LET r == list_templates(category, tags)
  IN /\ lcategory' = category
     /\ ltags' = tags
     /\ lres' = r.res
     /\ searched' = r.searched
     /\ displayed' = r.displayed

\* the --tags values tried
TagAlphabet == {"a", ",", " "}

RECURSIVE Join(_)
Join(tagSeq) ==
  IF Len(tagSeq) = 0 THEN <<>>
  ELSE IF Len(tagSeq) = 1 THEN tagSeq[1]
  ELSE tagSeq[1] \o <<",">> \o Join(Tail(tagSeq))

\* n distinct tags: t, tt, ttt, ...
DistinctTags(n) == [i \in 1..n |-> Rep("t", i)]

TagInputs ==
  StringsUpTo(TagAlphabet, MaxTagsLen)
    \cup {TagBasic, Join(<<TagBasic, TagFun>>),
          Join(<<<<" ">> \o TagFormal \o <<" ">>, TagFun>>),
          Join(<<TagBasic, <<>>, TagFun>>),
          Join(DistinctTags(MaxTags - 1)),
          Join(DistinctTags(MaxTags)),
          Join(DistinctTags(MaxTags + 1)),
          Join(Append(DistinctTags(MaxTags - 1), TagBasic)),
          Join(Append(DistinctTags(MaxTags - 1), <<" ">>)),
          Join(Append(DistinctTags(MaxTags), <<>>))}

CategoryInputs == {None, Some(""), Some("formal"), Some("casual"), Some("nope")}

\* a call of list_templates
ListCall ==
  /\ mpc = "idle"
  /\ \E category \in CategoryInputs,
        tags \in {None} \cup {Some(t) : t \in TagInputs} :
       ListEnter(category, tags)
  /\ UNCHANGED <<rootLevel, greetVars, asyncVars, sessionVars, mainVars,
                 lastGreet>>

\* -------------------------------------------------------------------- main
\* sys.exit(code)
SysExit(code) ==
  [kind |-> "raise", type |-> "SystemExit", key |-> "", value |-> <<code>>]

\* the classes an except clause of main names, and what they catch
IsInstance(type, class) ==
  CASE class = "Exception" -> type \notin {"SystemExit", "KeyboardInterrupt"}
    [] class = "ValueError" -> type \in {"ValueError", "JSONDecodeError"}
    [] class = "IOError" -> type \in {"IOError", "TimeoutError"}
    [] OTHER -> type = class

\* the command lines tried
LongName == Rep("a", MaxNameLen + 1)

GreetArgs ==
  {[NoArgs EXCEPT !.command = "greet", !.name = n, !.debug = d, !.message = m,
                  !.config = f, !.style = st, !.language = l,
                  !.async_mode = a, !.save_config = sv] :
     n \in {<<>>, Sam, LongName}, d \in BOOLEAN,
     m \in {None, Some(Msg), Some(<<>>)},
     f \in {None, Some("missing.json"), Some("bad.json"), Some("debug.json"),
            Some("odd.json")},
     st \in {"default", "formal", "bogus"}, l \in {"en", "ja", "xx"},
     a \in BOOLEAN, sv \in {None, Some("debug.json"), Some("odd.json")}}

TemplatesArgs ==
  {[NoArgs EXCEPT !.command = "templates", !.category = c, !.tags = t] :
     c \in {None, Some("formal"), Some("nope")},
     t \in {None, Some(TagBasic), Some(Join(<<TagBasic, <<>>, TagFun>>)),
            Some(Join(DistinctTags(MaxTags + 1)))}}

ConfigArgs ==
  {[NoArgs EXCEPT !.command = "config", !.action = ac, !.file = f] :
     ac \in {"view", "save", "validate", "delete"},
     f \in {None, Some("missing.json"), Some("bad.json"), Some("debug.json"),
            Some("odd.json")}}

AllArgs == {NoArgs} \cup GreetArgs \cup TemplatesArgs \cup ConfigArgs

\* parser.parse_args(): the choices of --style, --language and action
ParseOk(a) ==
  CASE a.command = "greet" -> a.style \in Styles /\ a.language \in LanguageValues
    [] a.command = "config" -> a.action \in {"view", "save", "validate"}
    [] OTHER -> TRUE

\* the end of main: the status the process exits with, given what left the
\* outer try block
OuterHandlers(e) ==
  IF e.kind # "raise" THEN 0
  ELSE IF e.type = "KeyboardInterrupt" THEN 130
  ELSE IF IsInstance(e.type, "Exception") THEN 1
  ELSE e.value[1]

\* the process ends
MainExit(e, err) ==
  /\ mpc' = "exited"
  /\ exitCode' = OuterHandlers(e)
  /\ merror' = IF merror = "" THEN err ELSE merror

\* args = parser.parse_args() and the choice of the command
MainParse ==
  /\ mpc = "parse"
  /\ IF ~ParseOk(args) THEN MainExit(SysExit(2), "usage")
     ELSE IF args.command = "" THEN MainExit(Return(<<>>), "")
     ELSE mpc' = args.command /\ UNCHANGED <<merror, exitCode>>
  /\ UNCHANGED <<rootLevel, greetVars, asyncVars, sessionVars, listVars, args,
                 mconfig, loaded, saved, validated, printed, lastGreet>>

\* a templates command that only logs the error
TemplatesHandlersLogOnly(r) == Return(<<>>)

\* except (ValueError, ValidationError): sys.exit(1)
TemplatesHandlers(r) ==
  IF r.kind = "raise" /\ (IsInstance(r.type, "ValueError")
                          \/ IsInstance(r.type, "ValidationError"))
    THEN SysExit(1)
    ELSE r

\* the templates command
MainTemplates ==
  /\ mpc = "templates"
  /\ ListEnter(args.category, args.tags)
  /\ LET r == list_templates(args.category, args.tags).res
     IN MainExit(TemplatesHandlers(r), r.type)
  /\ UNCHANGED <<rootLevel, greetVars, asyncVars, sessionVars, args, mconfig,
                 loaded, saved, validated, printed, lastGreet>>

\* config = AppConfig.from_file(path) if path else AppConfig()
LoadConfig(path) == IF path = None THEN Return(AppConfig) ELSE from_file(path[1])

\* the config command: what leaves it, for the action and the file
ConfigCommand(a) ==
  LET l == LoadConfig(a.file)
  IN IF l.kind = "raise" THEN
       IF IsInstance(l.type, "IOError") \/ IsInstance(l.type, "JSONDecodeError")
         THEN [out |-> SysExit(1), err |-> l.type]
         ELSE [out |-> l, err |-> l.type]
     ELSE IF a.action = "view" THEN [out |-> Return(<<>>), err |-> ""]
     ELSE IF a.action = "validate" THEN
       IF validate(l.value).kind = "raise"
         THEN [out |-> SysExit(1), err |-> validate(l.value).type]
         ELSE [out |-> Return(<<>>), err |-> ""]
     ELSE IF a.action = "save" /\ a.file # None THEN
       IF to_file(a.file[1]).kind = "raise"
         THEN [out |-> SysExit(1), err |-> to_file(a.file[1]).type]
         ELSE [out |-> Return(<<>>), err |-> ""]
     ELSE [out |-> Return(<<>>), err |-> ""]

MainConfig ==
  /\ mpc = "config"
  /\ MainExit(ConfigCommand(args).out, ConfigCommand(args).err)
  /\ mconfig' = IF LoadConfig(args.file).kind = "return"
                  THEN Some(LoadConfig(args.file).value) ELSE None
  /\ saved' = IF args.action = "save" /\ args.file # None
                 /\ LoadConfig(args.file).kind = "return"
                 /\ to_file(args.file[1]).kind = "return"
                THEN Some([path |-> args.file[1],
                           config |-> LoadConfig(args.file).value])
                ELSE None
  /\ UNCHANGED <<rootLevel, greetVars, asyncVars, sessionVars, listVars, args,
                 loaded, validated, printed, lastGreet>>

\* the handlers of the greet command's try block
GreetHandlers(e, bound) ==
  IF e.kind # "raise" THEN e
  ELSE IF IsInstance(e.type, "ValidationError") THEN SysExit(1)
  ELSE IF IsInstance(e.type, "IOError") \/ IsInstance(e.type, "JSONDecodeError")
    THEN SysExit(1)
  ELSE IF IsInstance(e.type, "Exception")
    THEN IF bound THEN SysExit(1) ELSE Raise("UnboundLocalError", "")
  ELSE e

\* the greet command: the config is loaded, then the name is checked
MainLoad ==
  /\ mpc = "greet"
  /\ LET l == LoadConfig(args.config)
     IN IF l.kind = "raise"
          THEN /\ MainExit(GreetHandlers(l, FALSE), l.type)
               /\ UNCHANGED <<mconfig, loaded>>
          ELSE /\ mconfig' = Some(l.value)
               /\ loaded' = Some(l.value)
               /\ IF NameError(args.name).kind = "raise"
                    THEN MainExit(GreetHandlers(SysExit(1), TRUE), "name")
                    ELSE mpc' = "override" /\ UNCHANGED <<merror, exitCode>>
  /\ UNCHANGED <<rootLevel, greetVars, asyncVars, sessionVars, listVars, args,
                 saved, validated, printed, lastGreet>>

\* x or y on Optional strings
OrElse(x, y) == IF Truthy(x) THEN x ELSE y

\* overrides that let the file's style and language stand
OverrideKeepFile(c, a) ==
  [debug |-> a.debug \/ c.debug,
   log_level |-> IF a.debug \/ c.debug THEN "DEBUG" ELSE "INFO",
   custom_message |-> OrElse(a.message, c.custom_message),
   template_style |-> c.template_style,
   async_mode |-> a.async_mode,
   language |-> c.language]

\* the config with the command line's values written over it
Override(c, a) ==
  [debug |-> a.debug \/ c.debug,
   log_level |-> IF a.debug \/ c.debug THEN "DEBUG" ELSE "INFO",
   custom_message |-> OrElse(a.message, c.custom_message),
   template_style |-> a.style,
   async_mode |-> a.async_mode,
   language |-> a.language]

\* the overrides, then the log level of debug mode
MainOverride ==
  /\ mpc = "override"
  /\ mconfig' = Some(Override(mconfig[1], args))
  /\ rootLevel' = DebugLevel(rootLevel, Override(mconfig[1], args).debug)
  /\ mpc' = "save"
  /\ UNCHANGED <<greetVars, asyncVars, sessionVars, listVars, args, loaded,
                 saved, validated, merror, printed, exitCode, lastGreet>>

\* if args.save_config: config.to_file(args.save_config)
MainSave ==
  /\ mpc = "save"
  /\ IF args.save_config # None /\ args.save_config[1] # ""
       THEN IF to_file(args.save_config[1]).kind = "raise"
              THEN /\ MainExit(GreetHandlers(SysExit(1), TRUE),
                               to_file(args.save_config[1]).type)
                   /\ UNCHANGED saved
              ELSE /\ saved' = Some([path |-> args.save_config[1],
                                     config |-> mconfig[1]])
                   /\ mpc' = "validate"
                   /\ UNCHANGED <<merror, exitCode>>
       ELSE mpc' = "validate" /\ UNCHANGED <<saved, merror, exitCode>>
  /\ UNCHANGED <<rootLevel, greetVars, asyncVars, sessionVars, listVars, args,
                 mconfig, loaded, validated, printed, lastGreet>>

\* config.validate(), then the call of greet or of asyncio.run(async_greet)
MainValidate ==
  /\ mpc = "validate"
  /\ validated' = mconfig
  /\ IF validate(mconfig[1]).kind = "raise"
       THEN /\ MainExit(GreetHandlers(validate(mconfig[1]), TRUE),
                        validate(mconfig[1]).type)
            /\ UNCHANGED <<greetVars, asyncVars>>
       ELSE /\ UNCHANGED <<merror, exitCode>>
            /\ IF mconfig[1].async_mode
                 THEN /\ mpc' = "async"
                      /\ AsyncEnter(args.name, mconfig)
                      /\ UNCHANGED greetVars
                 ELSE /\ mpc' = "sync"
                      /\ GreetEnter(args.name, mconfig)
                      /\ UNCHANGED asyncVars
  /\ UNCHANGED <<rootLevel, sessionVars, listVars, args, mconfig, loaded,
                 saved, printed, lastGreet>>

\* result = greet(args.name, config); print(result)
MainGreetReturn ==
  /\ mpc = "sync"
  /\ gpc = "returned"
  /\ printed' = IF gres.kind = "return" THEN Some(gres.value) ELSE None
  /\ MainExit(GreetHandlers(IF gres.kind = "return" THEN Return(<<>>) ELSE gres,
                            TRUE), gres.type)
  /\ GreetExit
  /\ UNCHANGED <<rootLevel, asyncVars, sessionVars, listVars, args, mconfig,
                 loaded, saved, validated, lastGreet>>

\* except asyncio.TimeoutError: sys.exit(1) / except Exception: sys.exit(1)
AsyncRunHandlers(e) ==
  IF e.kind # "raise" THEN e
  ELSE IF IsInstance(e.type, "TimeoutError") THEN SysExit(1)
  ELSE IF IsInstance(e.type, "Exception") THEN SysExit(1)
  ELSE e

\* result = asyncio.run(async_greet(args.name, config)); print(result)
MainAsyncReturn ==
  /\ mpc = "async"
  /\ apc = "done"
  /\ printed' = IF ares.kind = "return" THEN Some(ares.value) ELSE None
  /\ MainExit(GreetHandlers(AsyncRunHandlers(IF ares.kind = "return"
                                               THEN Return(<<>>) ELSE ares),
                            TRUE), ares.type)
  /\ apc' = "idle"
  /\ UNCHANGED <<rootLevel, greetVars, aname, aconfig, elapsed, ares,
                 sessionVars, listVars, args, mconfig, loaded, saved,
                 validated, lastGreet>>

\* Ctrl-C: KeyboardInterrupt is raised wherever main stands; no handler but
\* the outermost catches it
MainInterrupt ==
  /\ mpc \notin {"idle", "exited"}
  /\ MainExit(Raise("KeyboardInterrupt", ""), "KeyboardInterrupt")
  /\ GreetExit
  /\ apc' = "idle"
  /\ UNCHANGED <<rootLevel, aname, aconfig, elapsed, ares, sessionVars,
                 listVars, args, mconfig, loaded, saved, validated, printed,
                 lastGreet>>

\* a run of main on a command line
MainInit ==
  /\ rootLevel = INFO
  /\ InitGreet
  /\ InitAsync
  /\ inName = <<>>
  /\ inConfig = None
  /\ lastGreet = NoRes
  /\ InitList
  /\ InitMain
  /\ mpc = "parse"
  /\ args \in AllArgs

\* ---------------------------------------------------------- specifications
Next ==
  \/ GreetCall
  \/ GreetStep
  \/ GreetLeave

Spec == Init /\ [][Next]_vars

AsyncNext ==
  \/ SessionGreet
  \/ SessionAsync
  \/ GreetStep
  \/ SessionGreetLeave
  \/ Tick
  \/ AsyncWake
  \/ AsyncTimeout
  \/ AsyncReturn
  \/ AsyncLeave

AsyncSpec == SessionInit /\ [][AsyncNext]_vars

TemplatesSpec == Init /\ [][ListCall]_vars

MainNext ==
  \/ MainParse
  \/ MainTemplates
  \/ MainConfig
  \/ MainLoad
  \/ MainOverride
  \/ MainSave
  \/ MainValidate
  \/ GreetStep
  \/ MainGreetReturn
  \/ Tick
  \/ AsyncWake
  \/ AsyncTimeout
  \/ AsyncReturn
  \/ MainAsyncReturn
  \/ MainInterrupt

MainSpec == MainInit /\ [][MainNext]_vars

\* ------------------------------------------------------------------ claims
\* a name greet accepts: not empty, not only whitespace, at most 1000 long
ValidName(n) ==
  /\ Len(n) > 0
  /\ \E i \in 1..Len(n) : ~IsSpace(n[i])
  /\ Len(n) <= 1000

\* C1: for a name that is empty, whitespace-only or longer than 1000
\* characters, and any config, greet fails with a ValidationError keyed "name"
\* before any other work: no log-level change (even with debug set), no
\* translation lookup and no template lookup happens on that call.
C1_InvalidNameRejectedFirst ==
  (gpc # "idle" /\ ~ValidName(gname)) =>
    /\ gpc \in {"validate", "returned"}
    /\ gpc = "returned" => gres = Raise("ValidationError", "name")
    /\ events = <<>>
    /\ rootLevel = preLevel

C1_Witness ==
  /\ gpc = "returned"
  /\ Len(gname) > 1000
  /\ gconfig # None /\ cfg.debug
  /\ preLevel = INFO
  /\ gres.type = "ValidationError"

\* the greeting of the "default" style: prefix, separator, name, "! ", message
DefaultGreeting(name, c) ==
  TRANSLATIONS[c.language].greeting_prefix
    \o (IF c.language = "ja" THEN CJK_SEP ELSE <<",", " ">>)
    \o name \o <<"!", " ">>
    \o (IF c.custom_message = None THEN <<>> ELSE c.custom_message[1])

\* C2: with template_style "default" greet ignores the registry's pattern and
\* formats with the hardcoded pattern chosen by language only: the CJK one for
\* JA, the Latin one for every other language; message is custom_message or "".
C2_DefaultStyleHardcoded ==
  /\ (gpc = "format" /\ cfg.template_style = "default") =>
       /\ template # TEMPLATES["default"].pattern
       /\ template = IF cfg.language = "ja" THEN DefaultJA ELSE DefaultLatin
  /\ (gpc = "returned" /\ ValidName(gname) /\ cfg.template_style = "default"
        /\ cfg.language \in LanguageValues) =>
       gres = Return(DefaultGreeting(gname, cfg))

C2_Witness ==
  /\ gpc = "returned"
  /\ gname = Taro
  /\ gconfig # None
  /\ cfg.template_style = "default" /\ cfg.language = "ja"
  /\ cfg.custom_message = Some(Msg)
  /\ gres.kind = "return"

C4_AsyncSameOutcome ==
  (ares.kind # "none" /\ lastGreet.kind # "none"
     /\ ares.type # "TimeoutError") =>
    ares = lastGreet

C4_Witness ==
  /\ ares.kind = "raise" /\ ares.type = "KeyError"
  /\ lastGreet = ares
  /\ apc = "done"

\* C5: a call still suspended in its delay when 5 seconds have passed since it
\* started is cancelled there and fails with TimeoutError, which no other
\* error of the resolver is, and returns no string; a call resumed before the
\* deadline runs greet, and nothing cancels it once greet computes.
C5_TimeoutAtSuspensionOnly ==
  /\ [](ares.type = "TimeoutError" => ares = Raise("TimeoutError", ""))
  /\ [](gres.type # "TimeoutError" /\ lastGreet.type # "TimeoutError")
  /\ [][(apc = "sleeping" /\ apc' # "sleeping") =>
          IF elapsed >= 50
            THEN apc' = "done" /\ ares' = Raise("TimeoutError", "")
                 /\ gpc' = "idle"
            ELSE apc' = "running" /\ ares'.kind = "none"]_vars
  /\ [][apc = "running" => ares'.type # "TimeoutError"]_vars

C5_Witness ==
  /\ apc = "done"
  /\ ares = Raise("TimeoutError", "")
  /\ elapsed >= 50
  /\ ValidName(aname)

\* the tags of a --tags value: the pieces between its commas
TagBounds(str) == {0, Len(str) + 1} \cup {i \in 1..Len(str) : str[i] = ","}
TagPieces(str) ==
  {SubSeq(str, lo + 1, hi - 1) :
     <<lo, hi>> \in {bd \in TagBounds(str) \X TagBounds(str) :
                       /\ bd[1] < bd[2]
                       /\ \A k \in TagBounds(str) : ~(bd[1] < k /\ k < bd[2])}}
NumTags(str) == Cardinality(TagBounds(str)) - 1
HasEmptyTag(str) ==
  \E piece \in TagPieces(str) : \A i \in 1..Len(piece) : IsSpace(piece[i])

\* C7: listing by tags, more than 10 tags or a tag that is empty after
\* trimming fails with a ValidationError keyed "tags", with no search made and
\* nothing displayed; 1 to 10 non-empty tags are searched as the set of the
\* trimmed tags.
C7_TagsValidated ==
  (lres.kind # "none" /\ ~TruthyCategory(lcategory) /\ Truthy(ltags)) =>
    IF NumTags(ltags[1]) > 10 \/ HasEmptyTag(ltags[1])
      THEN /\ lres = Raise("ValidationError", "tags")
           /\ searched = None
           /\ displayed = {}
      ELSE /\ lres.kind = "return"
           /\ searched = Some({strip(piece) : piece \in TagPieces(ltags[1])})
           /\ displayed = search_by_tags(searched[1])

C7_Witness ==
  /\ lcategory = None /\ ltags # None
  /\ NumTags(ltags[1]) = 11 /\ ~HasEmptyTag(ltags[1])
  /\ lres = Raise("ValidationError", "tags")

\* C8 as claimed: with debug set the level is DEBUG while the call runs and
\* back at its pre-call value once greet has returned or failed; without
\* debug the level is untouched.
C8_LevelRestored ==
  /\ (gpc \in {"translate", "template", "format"} /\ cfg.debug) =>
       rootLevel = DEBUG
  /\ gpc = "returned" => rootLevel = preLevel
  /\ (gpc # "idle" /\ ~cfg.debug) => rootLevel = preLevel

\* C8: with debug set and a name it accepts, greet sets the process-wide level
\* to DEBUG before its lookups and leaves it at DEBUG when it has returned or
\* failed; without debug, or for a rejected name, the level is untouched.
C8_LevelStaysDebug ==
  /\ (gpc \in {"translate", "template", "format"} /\ cfg.debug) =>
       rootLevel = DEBUG
  /\ (gpc = "returned" /\ cfg.debug /\ ValidName(gname)) => rootLevel = DEBUG
  /\ (gpc # "idle" /\ (~cfg.debug \/ ~ValidName(gname))) =>
       rootLevel = preLevel

C8_Witness ==
  /\ gpc = "returned"
  /\ gconfig # None /\ cfg.debug
  /\ preLevel = INFO
  /\ rootLevel = DEBUG
  /\ gres.kind = "raise"

\* C9: for a valid name the translation lookup comes before the template
\* lookup; an unsupported language fails with its own error and no template
\* lookup is made, also when the style is unregistered too; an unregistered
\* style alone fails with the template-not-found error; no string is returned.
C9_LookupsFailFast ==
  /\ \A i, j \in 1..Len(events) :
       (events[i] = "get_translation" /\ events[j] = "get_template") => i < j
  /\ (gpc = "returned" /\ ValidName(gname)
        /\ cfg.language \notin LanguageValues) =>
       /\ gres = Raise("ValueError", "")
       /\ \A i \in 1..Len(events) : events[i] \notin {"get_template", "format"}
  /\ (gpc = "returned" /\ ValidName(gname) /\ cfg.language \in LanguageValues
        /\ cfg.template_style \notin Styles) =>
       /\ gres = Raise("KeyError", "")
       /\ \A i \in 1..Len(events) : events[i] # "format"

C9_Witness ==
  /\ gpc = "returned"
  /\ ValidName(gname)
  /\ gconfig # None
  /\ cfg.language = "xx" /\ cfg.template_style = "bogus"
  /\ gres.type = "ValueError"

\* what counts as an error of a run
RunErrors ==
  {"name", "ValidationError", "ValueError", "KeyError", "IOError",
   "JSONDecodeError", "TimeoutError"}

\* C6 as claimed: every run ends with 0, 1 or 130: 0 without an error, 130 on
\* KeyboardInterrupt, 1 on every other error, a rejected command line included.
C6_ThreeStatuses ==
  mpc = "exited" =>
    /\ exitCode \in {0, 1, 130}
    /\ exitCode = 0 <=> merror = ""
    /\ exitCode = 130 <=> merror = "KeyboardInterrupt"
    /\ exitCode = 1 <=> merror \in RunErrors \cup {"usage"}

\* C6: every run ends with 0, 1, 2 or 130: 2 when parse_args rejects the
\* command line, 0 when the command completes without an error, 130 on
\* KeyboardInterrupt, 1 on every validation, lookup, config-file, timeout or
\* other runtime error of a command.
C6_FourStatuses ==
  mpc = "exited" =>
    /\ exitCode \in {0, 1, 2, 130}
    /\ exitCode = 0 <=> merror = ""
    /\ exitCode = 130 <=> merror = "KeyboardInterrupt"
    /\ exitCode = 2 <=> merror = "usage"
    /\ exitCode = 1 <=> merror \in RunErrors

C6_Witness ==
  /\ mpc = "exited"
  /\ args.command = "greet" /\ args.async_mode
  /\ merror = "TimeoutError"
  /\ exitCode = 1

\* the config the greet command must use, from the command line and the file
ExpectedConfig(a, file) ==
  [template_style |-> a.style,
   language |-> a.language,
   async_mode |-> a.async_mode,
   debug |-> (a.debug \/ file.debug),
   log_level |-> IF a.debug \/ file.debug THEN "DEBUG" ELSE "INFO",
   custom_message |-> IF a.message # None /\ a.message[1] # <<>>
                        THEN a.message ELSE file.custom_message]

\* C10: in the greet command the config saved, validated and passed to greet
\* or async_greet has style, language and async_mode from the command line,
\* debug the OR of --debug and the file's, log_level "DEBUG" exactly when
\* debug, custom_message --message if non-empty and the file's otherwise; the
\* config is not assigned again after these assignments.
C10_OverridesBeforeUse ==
  /\ [](args.command = "greet" =>
          /\ (args.config = None /\ loaded # None) => loaded[1] = AppConfig
          /\ mpc \in {"save", "validate", "sync", "async"} =>
               mconfig = Some(ExpectedConfig(args, loaded[1]))
          /\ saved # None =>
               saved[1].config = ExpectedConfig(args, loaded[1])
          /\ validated # None =>
               validated = Some(ExpectedConfig(args, loaded[1]))
          /\ mpc = "sync" => gconfig = Some(ExpectedConfig(args, loaded[1]))
          /\ mpc = "async" => aconfig = Some(ExpectedConfig(args, loaded[1])))
  /\ [][(mpc \in {"save", "validate", "sync", "async"}) =>
          (mconfig' = mconfig)]_vars

C10_Witness ==
  /\ mpc = "sync"
  /\ gpc = "returned"
  /\ args.config = Some("debug.json")
  /\ ~args.debug /\ args.message = Some(<<>>)
  /\ args.style = "default" /\ args.language = "en"
  /\ saved # None
  /\ mconfig[1].debug /\ mconfig[1].custom_message = Some(Ciao)
  /\ ~mconfig[1].async_mode

====
